---------------------------- MODULE Spec2Model ----------------------------
(***************************************************************************)
(* Model of selfdrive/ui/main.cc: the bootstrap of the Qt dashboard.       *)
(* main() is one sequential procedure; each statement is one action and    *)
(* pc is the line of main.cc that runs next.  The environment (hardware    *)
(* classification, the contents of /usr/etc/tls/cert.pem, the platform's   *)
(* default TLS configuration, argv) is fixed when the process starts; the  *)
(* outcome of QTranslator::load, the events the loop dispatches and the    *)
(* value a.exec() returns are chosen when the statement runs.              *)
(***************************************************************************)
EXTENDS Integers, Sequences, FiniteSets, TLC

VARIABLES
  pc,            \* the line of main() that executes next
  eon,           \* what Hardware::EON() answers on this machine
  certFile,      \* /usr/etc/tls/cert.pem: its state and its PEM blocks
  platformSsl,   \* QSslConfiguration::defaultConfiguration() at process start
  argv,          \* the process arguments
  surfaceFormat, \* QSurfaceFormat default format: "platform" or "set"
  attributes,    \* the application attributes set by QApplication::setAttribute
  ssl,           \* main's local QSslConfiguration ssl (None before line 14)
  defaultSsl,    \* the process-wide default QSslConfiguration
  a,             \* main's QApplication a (None before line 19)
  translator,    \* main's QTranslator translator (None before line 21)
  loadResult,    \* what translator.load() returned (None before line 22)
  debugLog,      \* the messages written through qDebug()
  w,             \* main's MainWindow w (None before line 27)
  mainWindow,    \* the global main-window reference written by setMainWindow
  dispatched,    \* the events the loop dispatched, each with the filters offered it
  execRet,       \* the value a.exec() returned (None before it returns)
  mainRet,       \* the value main returned (None before it returns)
  calls          \* the calls main has made so far, in order

vars == <<pc, eon, certFile, platformSsl, argv, surfaceFormat, attributes, ssl,
          defaultSsl, a, translator, loadResult, debugLog, w, mainWindow,
          dispatched, execRet, mainRet, calls>>

----------------------------------------------------------------------------
\* Bounds of the model.

\* The longest certificate bundle file, in PEM blocks.
MaxFileLen == 3

\* The most events the loop dispatches before the application quits.
MaxEvents == 2

----------------------------------------------------------------------------
\* Values.

\* A variable that has no value yet holds None; once set it holds Some(v).
None == {}
Some(v) == {v}
The(opt) == CHOOSE v \in opt : TRUE

Range(s) == { s[i] : i \in 1..Len(s) }

\* The blocks a bundle file may hold: three certificates and one block that
\* does not parse as a certificate.
Certs == {"certA", "certB", "certC"}
Blocks == Certs \cup {"garbage"}

SeqsUpTo(S, n) == UNION { [1..k -> S] : k \in 0..n }

CertFiles ==
  { [state |-> "missing", blocks |-> <<>>], [state |-> "unreadable", blocks |-> <<>>] }
  \cup { [state |-> "present", blocks |-> b] : b \in SeqsUpTo(Blocks, MaxFileLen) }

\* The trusted lists the platform may ship as its default.
PlatformCaLists == { <<>>, <<"sysRoot">>, <<"sysRoot", "certA">> }

ArgVectors == { <<"ui">>, <<"ui", "-platform">> }

\* Values a.exec() may return (the argument of QCoreApplication::exit).
ExitCodes == {-1, 0, 256}

Events == {"touch", "key"}

TranslationFailed == "Failed to load translation!"

\* QSslCertificate::fromPath as main uses it: the certificates found in the
\* file, in file order; nothing when the file cannot be opened, and blocks
\* that are no certificate are skipped.
fromPath(file) ==
  IF file.state # "present"
    THEN <<>>
    ELSE SelectSeq(file.blocks, LAMBDA b : b \in Certs)

\* Whether a translation catalogue is active in the runtime: some installed
\* translator holds a loaded catalogue (an empty translator translates nothing).
CatalogueActive ==
  /\ a # None
  /\ \E i \in 1..Len(The(a).translators) :
        /\ The(a).translators[i] = "translator"
        /\ translator # None
        /\ The(translator).loaded

Call(name) == calls' = Append(calls, name)

----------------------------------------------------------------------------
Init ==
  /\ pc = "l10"
  /\ eon \in BOOLEAN
  /\ certFile \in CertFiles
  /\ platformSsl \in { [caCertificates |-> l, peerVerifyMode |-> "AutoVerifyPeer"] :
                         l \in PlatformCaLists }
  /\ argv \in ArgVectors
  /\ surfaceFormat = "platform"
  /\ attributes = {}
  /\ ssl = None
  /\ defaultSsl = platformSsl
  /\ a = None
  /\ translator = None
  /\ loadResult = None
  /\ debugLog = <<>>
  /\ w = None
  /\ mainWindow = None
  /\ dispatched = <<>>
  /\ execRet = None
  /\ mainRet = None
  /\ calls = <<>>

----------------------------------------------------------------------------
\* Mutant of setQtSurfaceFormat: the call is left out of main.
setQtSurfaceFormat_omitted ==
  /\ pc = "l10"
  /\ pc' = "l12"
  /\ UNCHANGED <<eon, certFile, platformSsl, argv, surfaceFormat, attributes, ssl,
                 defaultSsl, a, translator, loadResult, debugLog, w, mainWindow,
                 dispatched, execRet, mainRet, calls>>

\* main.cc:10   setQtSurfaceFormat();
setQtSurfaceFormat ==
  /\ pc = "l10"
  /\ surfaceFormat' = "set"
  /\ Call("setQtSurfaceFormat")
  /\ pc' = "l12"
  /\ UNCHANGED <<eon, certFile, platformSsl, argv, attributes, ssl, defaultSsl, a,
                 translator, loadResult, debugLog, w, mainWindow, dispatched,
                 execRet, mainRet>>

\* Mutant of HardwareEON: the condition is negated.
HardwareEON_negated ==
  /\ pc = "l12"
  /\ Call("Hardware::EON")
  /\ pc' = IF ~eon THEN "l13" ELSE "l19"
  /\ UNCHANGED <<eon, certFile, platformSsl, argv, surfaceFormat, attributes, ssl,
                 defaultSsl, a, translator, loadResult, debugLog, w, mainWindow,
                 dispatched, execRet, mainRet>>

\* main.cc:12   if (Hardware::EON()) {
HardwareEON ==
  /\ pc = "l12"
  /\ Call("Hardware::EON")
  /\ pc' = IF eon THEN "l13" ELSE "l19"
  /\ UNCHANGED <<eon, certFile, platformSsl, argv, surfaceFormat, attributes, ssl,
                 defaultSsl, a, translator, loadResult, debugLog, w, mainWindow,
                 dispatched, execRet, mainRet>>

\* Mutant of setAttribute: the attribute is never set.
setAttribute_omitted ==
  /\ pc = "l13"
  /\ pc' = "l14"
  /\ UNCHANGED <<eon, certFile, platformSsl, argv, surfaceFormat, attributes, ssl,
                 defaultSsl, a, translator, loadResult, debugLog, w, mainWindow,
                 dispatched, execRet, mainRet, calls>>

\* main.cc:13   QApplication::setAttribute(Qt::AA_ShareOpenGLContexts);
setAttribute ==
  /\ pc = "l13"
  /\ attributes' = attributes \cup {"AA_ShareOpenGLContexts"}
  /\ Call("setAttribute")
  /\ pc' = "l14"
  /\ UNCHANGED <<eon, certFile, platformSsl, argv, surfaceFormat, ssl, defaultSsl, a,
                 translator, loadResult, debugLog, w, mainWindow, dispatched,
                 execRet, mainRet>>

\* main.cc:14   QSslConfiguration ssl = QSslConfiguration::defaultConfiguration();
defaultConfiguration ==
  /\ pc = "l14"
  /\ ssl' = Some(defaultSsl)
  /\ Call("defaultConfiguration")
  /\ pc' = "l15"
  /\ UNCHANGED <<eon, certFile, platformSsl, argv, surfaceFormat, attributes,
                 defaultSsl, a, translator, loadResult, debugLog, w, mainWindow,
                 dispatched, execRet, mainRet>>

\* Mutant of setCaCertificates: the bundle is added to the platform's list
\* (addCaCertificates) instead of replacing it.
setCaCertificates_added ==
  /\ pc = "l15"
  /\ ssl' = Some([The(ssl) EXCEPT !.caCertificates = @ \o fromPath(certFile)])
  /\ Call("setCaCertificates")
  /\ pc' = "l16"
  /\ UNCHANGED <<eon, certFile, platformSsl, argv, surfaceFormat, attributes,
                 defaultSsl, a, translator, loadResult, debugLog, w, mainWindow,
                 dispatched, execRet, mainRet>>

\* main.cc:15   ssl.setCaCertificates(QSslCertificate::fromPath("/usr/etc/tls/cert.pem"));
setCaCertificates ==
  /\ pc = "l15"
  /\ ssl' = Some([The(ssl) EXCEPT !.caCertificates = fromPath(certFile)])
  /\ Call("setCaCertificates")
  /\ pc' = "l16"
  /\ UNCHANGED <<eon, certFile, platformSsl, argv, surfaceFormat, attributes,
                 defaultSsl, a, translator, loadResult, debugLog, w, mainWindow,
                 dispatched, execRet, mainRet>>

\* Mutant of setDefaultConfiguration: an empty bundle keeps the platform default.
setDefaultConfiguration_unlessEmpty ==
  /\ pc = "l16"
  /\ defaultSsl' = IF The(ssl).caCertificates = <<>> THEN defaultSsl ELSE The(ssl)
  /\ Call("setDefaultConfiguration")
  /\ pc' = "l19"
  /\ UNCHANGED <<eon, certFile, platformSsl, argv, surfaceFormat, attributes, ssl, a,
                 translator, loadResult, debugLog, w, mainWindow, dispatched,
                 execRet, mainRet>>

\* main.cc:16   QSslConfiguration::setDefaultConfiguration(ssl);
setDefaultConfiguration ==
  /\ pc = "l16"
  /\ defaultSsl' = The(ssl)
  /\ Call("setDefaultConfiguration")
  /\ pc' = "l19"
  /\ UNCHANGED <<eon, certFile, platformSsl, argv, surfaceFormat, attributes, ssl, a,
                 translator, loadResult, debugLog, w, mainWindow, dispatched,
                 execRet, mainRet>>

\* main.cc:19   QApplication a(argc, argv);
\* The runtime reads the application attributes as it is constructed: a
\* sharing attribute set later has no effect on it.
QApplicationCtor ==
  /\ pc = "l19"
  /\ a' = Some([args |-> argv,
                shareOpenGLContexts |-> ("AA_ShareOpenGLContexts" \in attributes),
                translators |-> <<>>,
                eventFilters |-> <<>>])
  /\ Call("QApplication")
  /\ pc' = "l21"
  /\ UNCHANGED <<eon, certFile, platformSsl, argv, surfaceFormat, attributes, ssl,
                 defaultSsl, translator, loadResult, debugLog, w, mainWindow,
                 dispatched, execRet, mainRet>>

\* main.cc:21   QTranslator translator;
QTranslatorCtor ==
  /\ pc = "l21"
  /\ translator' = Some([loaded |-> FALSE])
  /\ Call("QTranslator")
  /\ pc' = "l22"
  /\ UNCHANGED <<eon, certFile, platformSsl, argv, surfaceFormat, attributes, ssl,
                 defaultSsl, a, loadResult, debugLog, w, mainWindow, dispatched,
                 execRet, mainRet>>

\* Mutant of load: the negation of the condition is lost.
load_notNegated ==
  /\ pc = "l22"
  /\ \E ok \in BOOLEAN :
       /\ translator' = Some([The(translator) EXCEPT !.loaded = ok])
       /\ loadResult' = Some(ok)
       /\ pc' = IF ok THEN "l23" ELSE "l25"
  /\ Call("load")
  /\ UNCHANGED <<eon, certFile, platformSsl, argv, surfaceFormat, attributes, ssl,
                 defaultSsl, a, debugLog, w, mainWindow, dispatched, execRet, mainRet>>

\* main.cc:22   if (!translator.load("main_fr", "translations")) {
load ==
  /\ pc = "l22"
  /\ \E ok \in BOOLEAN :
       /\ translator' = Some([The(translator) EXCEPT !.loaded = ok])
       /\ loadResult' = Some(ok)
       /\ pc' = IF ~ok THEN "l23" ELSE "l25"
  /\ Call("load")
  /\ UNCHANGED <<eon, certFile, platformSsl, argv, surfaceFormat, attributes, ssl,
                 defaultSsl, a, debugLog, w, mainWindow, dispatched, execRet, mainRet>>

\* Mutant of qDebug: the failure branch leaves the localization stage, so the
\* translator is installed on the success path only.
qDebug_thenSkipInstall ==
  /\ pc = "l23"
  /\ debugLog' = Append(debugLog, TranslationFailed)
  /\ Call("qDebug")
  /\ pc' = "l27"
  /\ UNCHANGED <<eon, certFile, platformSsl, argv, surfaceFormat, attributes, ssl,
                 defaultSsl, a, translator, loadResult, w, mainWindow, dispatched,
                 execRet, mainRet>>

\* main.cc:23   qDebug() << "Failed to load translation!";
qDebug ==
  /\ pc = "l23"
  /\ debugLog' = Append(debugLog, TranslationFailed)
  /\ Call("qDebug")
  /\ pc' = "l25"
  /\ UNCHANGED <<eon, certFile, platformSsl, argv, surfaceFormat, attributes, ssl,
                 defaultSsl, a, translator, loadResult, w, mainWindow, dispatched,
                 execRet, mainRet>>

\* Mutant of installTranslator: only a loaded translator is installed.
installTranslator_ifLoaded ==
  /\ pc = "l25"
  /\ a' = IF The(translator).loaded
            THEN Some([The(a) EXCEPT !.translators = <<"translator">> \o @])
            ELSE a
  /\ calls' = IF The(translator).loaded THEN Append(calls, "installTranslator") ELSE calls
  /\ pc' = "l27"
  /\ UNCHANGED <<eon, certFile, platformSsl, argv, surfaceFormat, attributes, ssl,
                 defaultSsl, translator, loadResult, debugLog, w, mainWindow,
                 dispatched, execRet, mainRet>>

\* main.cc:25   a.installTranslator(&translator);
installTranslator ==
  /\ pc = "l25"
  /\ a' = Some([The(a) EXCEPT !.translators = <<"translator">> \o @])
  /\ Call("installTranslator")
  /\ pc' = "l27"
  /\ UNCHANGED <<eon, certFile, platformSsl, argv, surfaceFormat, attributes, ssl,
                 defaultSsl, translator, loadResult, debugLog, w, mainWindow,
                 dispatched, execRet, mainRet>>

\* main.cc:27   MainWindow w;
\* The window records what it saw of the runtime while it was constructed.
MainWindowCtor ==
  /\ pc = "l27"
  /\ w' = Some([translatorsAtConstruction |-> The(a).translators])
  /\ Call("MainWindow")
  /\ pc' = "l28"
  /\ UNCHANGED <<eon, certFile, platformSsl, argv, surfaceFormat, attributes, ssl,
                 defaultSsl, a, translator, loadResult, debugLog, mainWindow,
                 dispatched, execRet, mainRet>>

\* main.cc:28   setMainWindow(&w);
setMainWindow ==
  /\ pc = "l28"
  /\ mainWindow' = Some("w")
  /\ Call("setMainWindow")
  /\ pc' = "l29"
  /\ UNCHANGED <<eon, certFile, platformSsl, argv, surfaceFormat, attributes, ssl,
                 defaultSsl, a, translator, loadResult, debugLog, w, dispatched,
                 execRet, mainRet>>

\* Mutant of installEventFilter: the window is never installed as a filter.
installEventFilter_omitted ==
  /\ pc = "l29"
  /\ pc' = "l30"
  /\ UNCHANGED <<eon, certFile, platformSsl, argv, surfaceFormat, attributes, ssl,
                 defaultSsl, a, translator, loadResult, debugLog, w, mainWindow,
                 dispatched, execRet, mainRet, calls>>

\* main.cc:29   a.installEventFilter(&w);
installEventFilter ==
  /\ pc = "l29"
  /\ a' = Some([The(a) EXCEPT !.eventFilters = <<"w">> \o @])
  /\ Call("installEventFilter")
  /\ pc' = "l30"
  /\ UNCHANGED <<eon, certFile, platformSsl, argv, surfaceFormat, attributes, ssl,
                 defaultSsl, translator, loadResult, debugLog, w, mainWindow,
                 dispatched, execRet, mainRet>>

\* main.cc:30   a.exec()  -- the call: the loop starts
exec ==
  /\ pc = "l30"
  /\ Call("exec")
  /\ pc' = "loop"
  /\ UNCHANGED <<eon, certFile, platformSsl, argv, surfaceFormat, attributes, ssl,
                 defaultSsl, a, translator, loadResult, debugLog, w, mainWindow,
                 dispatched, execRet, mainRet>>

\* main.cc:30   a.exec()  -- inside the loop: one event is dispatched; it is
\* offered to the runtime's event filters before normal routing.
dispatch ==
  /\ pc = "loop"
  /\ Len(dispatched) < MaxEvents
  /\ \E e \in Events :
       dispatched' = Append(dispatched, [event |-> e, offeredTo |-> The(a).eventFilters])
  /\ UNCHANGED <<pc, eon, certFile, platformSsl, argv, surfaceFormat, attributes, ssl,
                 defaultSsl, a, translator, loadResult, debugLog, w, mainWindow,
                 execRet, mainRet, calls>>

\* main.cc:30   a.exec()  -- the application asks to quit: the loop returns
execReturns ==
  /\ pc = "loop"
  /\ \E code \in ExitCodes : execRet' = Some(code)
  /\ pc' = "ret"
  /\ UNCHANGED <<eon, certFile, platformSsl, argv, surfaceFormat, attributes, ssl,
                 defaultSsl, a, translator, loadResult, debugLog, w, mainWindow,
                 dispatched, mainRet, calls>>

\* Mutant of return: main returns 0 whatever the loop returned.
return_zero ==
  /\ pc = "ret"
  /\ mainRet' = Some(0)
  /\ pc' = "done"
  /\ UNCHANGED <<eon, certFile, platformSsl, argv, surfaceFormat, attributes, ssl,
                 defaultSsl, a, translator, loadResult, debugLog, w, mainWindow,
                 dispatched, execRet, calls>>

\* main.cc:30   return a.exec();
return ==
  /\ pc = "ret"
  /\ mainRet' = execRet
  /\ pc' = "done"
  /\ UNCHANGED <<eon, certFile, platformSsl, argv, surfaceFormat, attributes, ssl,
                 defaultSsl, a, translator, loadResult, debugLog, w, mainWindow,
                 dispatched, execRet, calls>>

Next ==
  \/ setQtSurfaceFormat
  \/ HardwareEON
  \/ setAttribute
  \/ defaultConfiguration
  \/ setCaCertificates
  \/ setDefaultConfiguration
  \/ QApplicationCtor
  \/ QTranslatorCtor
  \/ load
  \/ qDebug
  \/ installTranslator
  \/ MainWindowCtor
  \/ setMainWindow
  \/ installEventFilter
  \/ exec
  \/ dispatch
  \/ execReturns
  \/ return

Spec == Init /\ [][Next]_vars

----------------------------------------------------------------------------
\* Vocabulary of the properties.

\* The statements of main in program order, and how far main has got.
Lines == <<"l10", "l12", "l13", "l14", "l15", "l16", "l19", "l21", "l22", "l23",
           "l25", "l27", "l28", "l29", "l30", "loop", "ret", "done">>
LineNo(l) == CHOOSE i \in 1..Len(Lines) : Lines[i] = l
Past(l) == LineNo(pc) > LineNo(l)
InLoopOrLater == pc \in {"loop", "ret", "done"}

\* How often main has made a call, and where in its run it made it first.
Count(name) == Cardinality({ i \in 1..Len(calls) : calls[i] = name })
Pos(name) ==
  IF Count(name) = 0 THEN 0
  ELSE CHOOSE i \in 1..Len(calls) :
         calls[i] = name /\ \A j \in 1..(i - 1) : calls[j] # name

ShareGL == "AA_ShareOpenGLContexts"
Trusted == Range(defaultSsl.caCertificates)

\* The certificates a bundle file holds, read off the file itself.
BundleCerts == IF certFile.state = "present" THEN Range(certFile.blocks) \cap Certs ELSE {}

\* The calls of the stages after the trust store, up to the entry of the loop.
TailCalls(loaded) ==
  <<"QApplication", "QTranslator", "load">>
  \o (IF loaded THEN <<>> ELSE <<"qDebug">>)
  \o <<"installTranslator", "MainWindow", "setMainWindow", "installEventFilter", "exec">>
TargetCalls(loaded) ==
  <<"setQtSurfaceFormat", "Hardware::EON", "setAttribute", "defaultConfiguration",
    "setCaCertificates", "setDefaultConfiguration">> \o TailCalls(loaded)

WindowRegistered ==
  /\ w # None
  /\ mainWindow = Some("w")
  /\ a # None
  /\ "w" \in Range(The(a).eventFilters)

----------------------------------------------------------------------------
\* C1: off the target hardware (Hardware::EON() false) main neither sets the
\* GL context-sharing attribute nor replaces the default TLS configuration:
\* at every point of the run, the entry of the event loop included, the
\* default configuration is the one of process start and the attribute is unset.
C1_NonTargetLeavesGlAndTlsAlone ==
  ~eon =>
    /\ defaultSsl = platformSsl
    /\ ShareGL \notin attributes
    /\ Count("setAttribute") = 0
    /\ Count("setDefaultConfiguration") = 0
    /\ a # None => ~The(a).shareOpenGLContexts

C1_Witness ==
  /\ ~eon
  /\ pc = "loop"
  /\ BundleCerts = Certs
  /\ platformSsl.caCertificates = <<"sysRoot">>
  /\ argv = <<"ui">>

\* C2: on the target hardware the GL context-sharing attribute is set before
\* the QApplication is constructed, so the runtime is built with sharing on;
\* it is never set once the runtime exists.
C2_GlSharingSetBeforeRuntime ==
  eon =>
    /\ a # None =>
         /\ The(a).shareOpenGLContexts
         /\ 0 < Pos("setAttribute")
         /\ Pos("setAttribute") < Pos("QApplication")
    /\ \A i \in 1..Len(calls) :
         calls[i] = "setAttribute" => (Pos("QApplication") = 0 \/ i < Pos("QApplication"))

C2_Witness ==
  /\ eon
  /\ pc = "loop"
  /\ The(a).shareOpenGLContexts
  /\ Pos("setAttribute") < Pos("QApplication")

\* C3: on the target hardware, when the bundle file exists and holds at least
\* one certificate, the trusted set of the default TLS configuration is, from
\* the end of the trust-store stage on, exactly the set of certificates of the
\* file, whatever the platform's default list was.
C3_TrustStoreIsTheBundle ==
  (eon /\ certFile.state = "present" /\ BundleCerts # {} /\ Past("l16")) =>
    Trusted = BundleCerts

C3_Witness ==
  /\ eon
  /\ pc = "loop"
  /\ Cardinality(BundleCerts) = 3
  /\ platformSsl.caCertificates = <<"sysRoot", "certA">>
  /\ Trusted = Certs

\* C4: on the target hardware, when the bundle file is missing, unreadable or
\* holds no certificate, the trust-store stage installs an empty trusted list,
\* writes no diagnostic and stops nothing: main goes on through the same calls
\* as with a valid file, up to the event loop.
C4_BadBundleDegradesSilently ==
  (eon /\ BundleCerts = {}) =>
    /\ Past("l16") => defaultSsl.caCertificates = <<>>
    /\ ~Past("l22") => debugLog = <<>>
    /\ Past("l16") => Count("qDebug") = (IF loadResult = Some(FALSE) /\ Past("l23") THEN 1 ELSE 0)
    /\ (InLoopOrLater /\ loadResult # None) => calls = TargetCalls(The(loadResult))
    /\ pc # "done" => ENABLED Next

C4_Witness ==
  /\ eon
  /\ certFile.state = "missing"
  /\ platformSsl.caCertificates # <<>>
  /\ pc = "loop"
  /\ defaultSsl.caCertificates = <<>>
  /\ WindowRegistered

\* C5: when translator.load fails the diagnostic is written and main still
\* constructs the window, registers it and enters the event loop; the
\* diagnostic is written in no run where the load succeeded, and no outcome of
\* the load ends the process.
C5_LoadFailureIsLoggedNotFatal ==
  /\ (loadResult = Some(FALSE) /\ Past("l23")) => debugLog = <<TranslationFailed>>
  /\ loadResult # Some(FALSE) => debugLog = <<>>
  /\ (loadResult = Some(FALSE) /\ InLoopOrLater) =>
        /\ WindowRegistered
        /\ Pos("qDebug") < Pos("MainWindow")
        /\ Pos("MainWindow") < Pos("exec")
  /\ pc # "done" => ENABLED Next

C5_Witness ==
  /\ loadResult = Some(FALSE)
  /\ pc = "loop"
  /\ debugLog = <<TranslationFailed>>
  /\ WindowRegistered

\* C6 as stated: after the localization stage the catalogue is either loaded
\* and installed (load succeeded) or absent with the default language active
\* (load failed), and the installation into the runtime is made on the success
\* path only.
C6_InstallOnSuccessOnly ==
  Past("l25") =>
    /\ The(loadResult) => CatalogueActive
    /\ ~The(loadResult) => ~CatalogueActive
    /\ (Count("installTranslator") = 1) <=> The(loadResult)
    /\ ("translator" \in Range(The(a).translators)) <=> The(loadResult)

\* C6 as amended: after the localization stage the translator is installed
\* into the runtime on both paths; its catalogue is loaded and active when the
\* load succeeded, and it is empty, with the default language active, when the
\* load failed.
C6_InstalledAlwaysActiveIffLoaded ==
  Past("l25") =>
    /\ The(a).translators = <<"translator">>
    /\ Count("installTranslator") = 1
    /\ The(translator).loaded = The(loadResult)
    /\ CatalogueActive <=> The(loadResult)

C6_Witness ==
  /\ pc = "l27"
  /\ loadResult = Some(FALSE)
  /\ The(a).translators = <<"translator">>
  /\ ~CatalogueActive

\* C7: the main window is an event filter of the runtime, and the global
\* main-window reference is set, before the loop starts: every event the loop
\* dispatched was offered to the window, and none is dispatched while the
\* constructed window is not registered.
C7_WindowRegisteredBeforeDispatch ==
  /\ \A i \in 1..Len(dispatched) : "w" \in Range(dispatched[i].offeredTo)
  /\ ~WindowRegistered => dispatched = <<>>
  /\ InLoopOrLater =>
        /\ WindowRegistered
        /\ 0 < Pos("installEventFilter")
        /\ Pos("installEventFilter") < Pos("exec")
        /\ 0 < Pos("setMainWindow")
        /\ Pos("setMainWindow") < Pos("exec")

C7_Witness ==
  /\ pc = "loop"
  /\ Len(dispatched) >= 2
  /\ \A i \in 1..Len(dispatched) : dispatched[i].offeredTo = <<"w">>

\* C8: installTranslator is called after the QApplication is constructed and
\* before the MainWindow is constructed, whether the load succeeded or failed.
C8_TranslatorInstalledBeforeWindow ==
  /\ Past("l25") => Count("installTranslator") = 1
  /\ Count("installTranslator") > 0 =>
        /\ 0 < Pos("QApplication")
        /\ Pos("QApplication") < Pos("installTranslator")
  /\ w # None =>
        /\ 0 < Pos("installTranslator")
        /\ Pos("installTranslator") < Pos("MainWindow")
        /\ The(w).translatorsAtConstruction = <<"translator">>

C8_Witness ==
  /\ pc = "l28"
  /\ loadResult = Some(FALSE)
  /\ w # None
  /\ Pos("QApplication") < Pos("installTranslator")
  /\ Pos("installTranslator") < Pos("MainWindow")

\* C9: main returns the value a.exec() returned, unchanged, whatever the
\* hardware, the bundle file and the load did; it returns only after the loop
\* has returned and leaves on no other path.
C9_ExitStatusIsLoopResult ==
  /\ pc = "done" => (mainRet # None /\ mainRet = execRet)
  /\ mainRet # None => (pc = "done" /\ execRet # None /\ Pos("exec") > 0)
  /\ execRet # None => pc \in {"ret", "done"}
  /\ pc # "done" => ENABLED Next

C9_Witness ==
  /\ pc = "done"
  /\ mainRet = Some(256)
  /\ eon
  /\ BundleCerts = {}
  /\ loadResult = Some(FALSE)

\* C10: setQtSurfaceFormat is called exactly once and is the first call of
\* main: nothing of the platform check, the GL and trust-store stages, the
\* runtime or a window exists before it; Hardware::EON() is evaluated exactly
\* once.
C10_SurfaceFormatFirstAndOnce ==
  /\ calls # <<>> => calls[1] = "setQtSurfaceFormat"
  /\ Count("setQtSurfaceFormat") = (IF Past("l10") THEN 1 ELSE 0)
  /\ Count("Hardware::EON") = (IF Past("l12") THEN 1 ELSE 0)
  /\ surfaceFormat # "set" =>
        /\ calls = <<>>
        /\ attributes = {}
        /\ defaultSsl = platformSsl
        /\ a = None
        /\ w = None

C10_Witness ==
  /\ pc = "done"
  /\ eon
  /\ surfaceFormat = "set"
  /\ Count("setQtSurfaceFormat") = 1
  /\ Count("Hardware::EON") = 1
  /\ Pos("setQtSurfaceFormat") < Pos("Hardware::EON")

============================================================================
